---- MODULE Spec2Model ----
(***************************************************************************)
(* Copy-on-write trie of src/primer/trie.cpp (Trie::Get, Trie::Put,        *)
(* Trie::Remove).                                                          *)
(*                                                                         *)
(* The heap is a sequence of immutable node objects; a node's identity is  *)
(* its index in the heap and 0 is nullptr.  Every make_shared / Clone of   *)
(* the code appends one node to the heap.  A Trie is its root_ pointer.    *)
(* The program keeps every Trie it ever produced (versions) and applies    *)
(* the next Put or Remove to the latest one.  Spec runs whole calls;       *)
(* ConcSpec runs one writer thread node construction by node construction  *)
(* beside a reader thread that walks a Trie it obtained earlier.           *)
(***************************************************************************)
EXTENDS Naturals, Integers, Sequences, FiniteSets, TLC

VARIABLES heap, versions, fault, steps, writer, reader

vars == <<heap, versions, fault, steps, writer, reader>>

(***************************************************************************)
(* Bounds and input sets.                                                  *)
(***************************************************************************)
\* number of Put/Remove calls made after the initial trie was built
MaxOps == 2

\* key units (char) used by the keys
Chars == {"a", "b"}

\* lengths of the keys passed to Get/Put/Remove (0 is the empty key)
KeyLengths == {0, 1, 2}

Keys == UNION {[1..n -> Chars] : n \in KeyLengths}

\* two of the value types Put/Get are instantiated with
Types == {"uint32_t", "uint64_t"}

\* payloads
Values == {1, 2}

\* dynamic class of a node that is a plain TrieNode
PlainNode == "TrieNode"

Null == 0

(***************************************************************************)
(* Nodes (primer/trie.h).                                                  *)
(***************************************************************************)
\* std::map<char, shared_ptr<const TrieNode>> with no entry
NoChildren == [c \in Chars |-> Null]

\* TrieNode(): no children, no value
NewTrieNode == [children_ |-> NoChildren, is_value_node_ |-> FALSE,
                type_ |-> PlainNode, value_ |-> 0]

\* TrieNode(children)
TrieNode(children) == [children_ |-> children, is_value_node_ |-> FALSE,
                       type_ |-> PlainNode, value_ |-> 0]

\* TrieNodeWithValue<T>(children, value)
TrieNodeWithValue(children, T, value) ==
  [children_ |-> children, is_value_node_ |-> TRUE, type_ |-> T, value_ |-> value]

\* node->Clone(): a new node of the same dynamic class, same children, same value
Clone(node) == node

\* node->Contains(ch)
Contains(node, ch) == node.children_[ch] # Null

\* children_.empty()
Empty(children) == \A c \in Chars : children[c] = Null

\* dynamic_cast<const TrieNodeWithValue<T> *>(node) succeeds
DynamicCast(node, T) == node.type_ = T

\* a new object on the heap: the heap after it, and the pointer to it
Alloc(h, node) == [heap |-> Append(h, node), node |-> Len(h) + 1]

\* an existing pointer, nothing allocated
Same(h, p) == [heap |-> h, node |-> p]

(***************************************************************************)
(* Trie::Get<T>(key): the result is a pointer to the stored value or       *)
(* nullptr; the model returns the value it points to.                      *)
(***************************************************************************)
Absent == [found |-> FALSE, value |-> 0]

Found(v) == [found |-> TRUE, value |-> v]

\* GetEmptyKey with the cast unchecked (static_cast): any stored value is
\* handed out whatever its type
GetEmptyKeyUnchecked(node, T) ==
  IF ~node.is_value_node_ THEN Absent ELSE Found(node.value_)

\* key.empty(): the root node itself is looked at
GetEmptyKey(node, T) ==
  IF ~node.is_value_node_ THEN Absent
  ELSE IF ~DynamicCast(node, T) THEN Absent
  ELSE Found(node.value_)

\* the walk from p along key; Null when a child is missing
RECURSIVE GetWalk(_, _, _)
GetWalk(h, p, key) ==
  IF key = <<>> THEN p
  ELSE IF ~Contains(h[p], Head(key)) THEN Null
  ELSE GetWalk(h, h[p].children_[Head(key)], Tail(key))

\* GetValue with static_cast and no look at is_value_node_: whatever the
\* node stores is handed out
GetValueUnchecked(node, T) == Found(node.value_)

\* the node the walk ended at
GetValue(node, T) ==
  IF ~DynamicCast(node, T) THEN Absent
  ELSE IF ~node.is_value_node_ THEN Absent
  ELSE Found(node.value_)

Get(h, root_, key, T) ==
  IF root_ = Null THEN Absent
  ELSE IF key = <<>> THEN GetEmptyKey(h[root_], T)
  ELSE LET p == GetWalk(h, root_, key)
       IN IF p = Null THEN Absent ELSE GetValue(h[p], T)

(***************************************************************************)
(* Trie::Put<T>(key, value).  Each operator returns the heap after its     *)
(* allocations and the pointer it yields.                                  *)
(***************************************************************************)
\* auto root = root_; if (!root) root = make_shared<const TrieNode>()
PutRoot(h, root_) ==
  IF root_ = Null THEN Alloc(h, NewTrieNode) ELSE Same(h, root_)

\* PutTerminal building a plain TrieNode: the value is dropped
PutTerminalPlain(h, node, T, value) ==
  Alloc(h, TrieNode(h[node].children_))

\* PutTerminal keeping the value of a node that already holds one
PutTerminalKeepOld(h, node, T, value) ==
  IF h[node].is_value_node_
  THEN Alloc(h, Clone(h[node]))
  ELSE Alloc(h, TrieNodeWithValue(h[node].children_, T, value))

\* PutTerminal building the value node without the children of node
PutTerminalNoChildren(h, node, T, value) ==
  Alloc(h, TrieNodeWithValue(NoChildren, T, value))

\* kv.empty(): a new value node with the children of node
PutTerminal(h, node, T, value) ==
  Alloc(h, TrieNodeWithValue(h[node].children_, T, value))

\* PutChildren starting from an empty map: the other children of the node
\* are not carried over
PutChildrenEmpty(h, node) == NoChildren

\* std::map children; if (node) children = node->children_
PutChildren(h, node) ==
  IF node # Null THEN h[node].children_ ELSE NoChildren

\* the child the recursion descends into: the existing one or a new empty node
PutNextNode(h, node, ch) ==
  IF node # Null /\ Contains(h[node], ch)
  THEN Same(h, h[node].children_[ch])
  ELSE Alloc(h, NewTrieNode)

\* PutInterior writing the new children into the existing node (no clone)
PutInteriorInPlace(h, node, children) ==
  IF node # Null
  THEN [heap |-> [h EXCEPT ![node].children_ = children], node |-> node]
  ELSE Alloc(h, TrieNode(children))

\* PutInterior always building a plain TrieNode: a value held by a node on
\* the path is lost
PutInteriorPlain(h, node, children) ==
  Alloc(h, TrieNode(children))

\* the node returned for a non-terminal position: a clone of a value node
\* with the new children, or a plain node with the new children
PutInterior(h, node, children) ==
  IF node # Null /\ h[node].is_value_node_
  THEN Alloc(h, [Clone(h[node]) EXCEPT !.children_ = children])
  ELSE Alloc(h, TrieNode(children))

RECURSIVE PutDfs(_, _, _, _, _)
PutDfs(h, kv, node, T, value) ==
  IF kv = <<>> THEN PutTerminal(h, node, T, value)
  ELSE LET ch == Head(kv)
           children == PutChildren(h, node)
           next_node == PutNextNode(h, node, ch)
           sub == PutDfs(next_node.heap, Tail(kv), next_node.node, T, value)
       IN PutInterior(sub.heap, node, [children EXCEPT ![ch] = sub.node])

\* the heap after the call and the root_ of the returned Trie
Put(h, root_, key, T, value) ==
  LET root == PutRoot(h, root_)
      res == PutDfs(root.heap, key, root.node, T, value)
  IN [heap |-> res.heap, root_ |-> res.node]

(***************************************************************************)
(* Trie::Remove(key), for a trie whose root_ is not nullptr.               *)
(***************************************************************************)
\* RemoveTerminal that only drops childless value nodes and leaves a value
\* node with children as it is
RemoveTerminalKeep(h, node) ==
  IF ~h[node].is_value_node_ THEN Same(h, node)
  ELSE IF Empty(h[node].children_) THEN Same(h, Null)
  ELSE Same(h, node)

\* one new copy of every child in todo: the heap after it and the new map
RECURSIVE CopyChildren(_, _, _)
CopyChildren(h, children, todo) ==
  IF todo = {} THEN [heap |-> h, children |-> children]
  ELSE LET c == CHOOSE x \in todo : TRUE
       IN IF children[c] = Null
          THEN CopyChildren(h, children, todo \ {c})
          ELSE CopyChildren(Append(h, h[children[c]]),
                            [children EXCEPT ![c] = Len(h) + 1], todo \ {c})

\* RemoveTerminal demoting a value node onto copies of its children
RemoveTerminalDeepCopy(h, node) ==
  IF ~h[node].is_value_node_ THEN Same(h, node)
  ELSE IF Empty(h[node].children_) THEN Same(h, Null)
  ELSE LET copy == CopyChildren(h, h[node].children_, Chars)
       IN Alloc(copy.heap, TrieNode(copy.children))

\* ind == key.size()
RemoveTerminal(h, node) ==
  IF ~h[node].is_value_node_ THEN Same(h, node)
  ELSE IF Empty(h[node].children_) THEN Same(h, Null)
  ELSE Alloc(h, TrieNode(h[node].children_))

\* RemoveUnwind without the check of line 109: the clone is always returned
RemoveUnwindNoPrune(h, node, ch, next_node) ==
  Alloc(h, [Clone(h[node]) EXCEPT !.children_[ch] = next_node])

\* RemoveUnwind testing only the children in line 109: a node left without
\* children is dropped although it holds a value
RemoveUnwindPruneValue(h, node, ch, next_node) ==
  LET clone_node == [Clone(h[node]) EXCEPT !.children_[ch] = next_node]
      cloned == Alloc(h, clone_node)
  IN IF Empty(clone_node.children_) THEN Same(cloned.heap, Null) ELSE cloned

\* after the recursive call returned next_node: clone node, erase or replace
\* the entry of ch, and return nullptr for a clone left with nothing
RemoveUnwind(h, node, ch, next_node) ==
  LET clone_node == IF next_node = Null
                    THEN [Clone(h[node]) EXCEPT !.children_[ch] = Null]
                    ELSE [Clone(h[node]) EXCEPT !.children_[ch] = next_node]
      cloned == Alloc(h, clone_node)
  IN IF Empty(clone_node.children_) /\ ~h[node].is_value_node_
     THEN Same(cloned.heap, Null)
     ELSE cloned

RECURSIVE RemoveDfs(_, _, _, _)
RemoveDfs(h, key, node, ind) ==
  IF ind = Len(key) THEN RemoveTerminal(h, node)
  ELSE LET ch == key[ind + 1]
       IN IF ~Contains(h[node], ch) THEN Same(h, node)
          ELSE LET sub == RemoveDfs(h, key, h[node].children_[ch], ind + 1)
               IN RemoveUnwind(sub.heap, node, ch, sub.node)

Remove(h, root_, key) ==
  LET res == RemoveDfs(h, key, root_, 0)
  IN [heap |-> res.heap, root_ |-> res.node]

(***************************************************************************)
(* The program: a caller that builds an initial trie with Put and then     *)
(* calls Put and Remove on the latest Trie, keeping every earlier Trie.    *)
(* versions[i] is the i-th Trie with the call that produced it;            *)
(* versions[1] is Trie() and versions[i + 1] came from versions[i].        *)
(***************************************************************************)
Version(root_, op, key, T, value) ==
  [root_ |-> root_, op |-> op, key |-> key, type |-> T, value |-> value]

\* Trie() = default: root_{nullptr}
EmptyTrie == Version(Null, "Trie", <<>>, PlainNode, 0)

\* the Put calls the initial trie is built from: any of these, in this order
SeedPuts ==
  << [key |-> <<>>,         type |-> "uint32_t", value |-> 1],
     [key |-> <<"a">>,      type |-> "uint64_t", value |-> 1],
     [key |-> <<"a", "b">>, type |-> "uint32_t", value |-> 2],
     [key |-> <<"b">>,      type |-> "uint64_t", value |-> 2] >>

Latest(vs) == vs[Len(vs)].root_

\* the program state after t.Put<T>(key, value) on the latest Trie
AfterPut(st, key, T, value) ==
  LET res == Put(st.heap, Latest(st.versions), key, T, value)
  IN [heap |-> res.heap,
      versions |-> Append(st.versions, Version(res.root_, "Put", key, T, value))]

\* the program state after t.Remove(key) on the latest Trie
AfterRemove(st, key) ==
  LET res == Remove(st.heap, Latest(st.versions), key)
  IN [heap |-> res.heap,
      versions |-> Append(st.versions, Version(res.root_, "Remove", key, PlainNode, 0))]

RECURSIVE Build(_, _, _)
Build(chosen, i, st) ==
  IF i > Len(SeedPuts) THEN st
  ELSE IF i \in chosen
       THEN Build(chosen, i + 1,
                  AfterPut(st, SeedPuts[i].key, SeedPuts[i].type, SeedPuts[i].value))
       ELSE Build(chosen, i + 1, st)

NoFault == [faulted |-> FALSE, key |-> <<>>]

\* the writer thread outside a call: op and pc say where it is in Put or
\* Remove, path holds the node argument of every active dfs call, ret the
\* pointer the last dfs call returned, clone the node Clone() just made
Idle == [op |-> "none", pc |-> "idle", key |-> <<>>, type |-> PlainNode, value |-> 0,
         path |-> <<>>, ret |-> Null, clone |-> Null]

\* the reader thread before it obtained a Trie: root_ is the Trie it holds,
\* key the key of its Get, rest the key units still to walk, p the node it
\* stands on; for the properties, expect is what Get returns on its Trie when
\* it obtained it and seen the nodes of that Trie as they were then
NoRead == [pc |-> "idle", root_ |-> Null, key |-> <<>>, rest |-> <<>>,
           type |-> PlainNode, p |-> Null, expect |-> Absent, result |-> Absent,
           seen |-> <<>>]

Init ==
  \E chosen \in SUBSET DOMAIN SeedPuts :
    LET st == Build(chosen, 1, [heap |-> <<>>, versions |-> <<EmptyTrie>>])
    IN /\ heap = st.heap
       /\ versions = st.versions
       /\ fault = NoFault
       /\ steps = 0
       /\ writer = Idle
       /\ reader = NoRead

Running == ~fault.faulted /\ steps < MaxOps

PutCall(key, T, value) ==
  /\ Running
  /\ LET st == AfterPut([heap |-> heap, versions |-> versions], key, T, value)
     IN /\ heap' = st.heap
        /\ versions' = st.versions
  /\ steps' = steps + 1
  /\ UNCHANGED <<fault, writer, reader>>

RemoveCall(key) ==
  /\ Running
  /\ Latest(versions) # Null
  /\ LET st == AfterRemove([heap |-> heap, versions |-> versions], key)
     IN /\ heap' = st.heap
        /\ versions' = st.versions
  /\ steps' = steps + 1
  /\ UNCHANGED <<fault, writer, reader>>

\* Remove on a Trie whose root_ is nullptr: dfs dereferences node (line 90 for
\* the empty key, line 99 otherwise), which is undefined.  The process is
\* killed by the invalid read, or the read yields a value with which dfs
\* returns node, i.e. nullptr.
NullDerefOutcomes == {"fault", "returns_node"}

RemoveCallNullRoot(key, outcome) ==
  /\ Running
  /\ Latest(versions) = Null
  /\ IF outcome = "fault"
     THEN /\ fault' = [faulted |-> TRUE, key |-> key]
          /\ UNCHANGED versions
     ELSE /\ versions' = Append(versions, Version(Null, "Remove", key, PlainNode, 0))
          /\ UNCHANGED fault
  /\ steps' = steps + 1
  /\ UNCHANGED <<heap, writer, reader>>

Next ==
  \/ \E key \in Keys, T \in Types, value \in Values : PutCall(key, T, value)
  \/ \E key \in Keys : RemoveCall(key)
  \/ \E key \in Keys, outcome \in NullDerefOutcomes : RemoveCallNullRoot(key, outcome)

Spec == Init /\ [][Next]_vars

(***************************************************************************)
(* The writer thread, one heap operation per step.  A Put or Remove call   *)
(* descends along the key (down), then returns level by level (up); a      *)
(* level that clones its node first makes the clone and then edits the     *)
(* clone's children_ (edit).  The Trie is in versions once the call        *)
(* returned.                                                               *)
(***************************************************************************)
\* calls the writer makes beside the reader
ConcOps == 1

\* what the writer thread stores: which nodes a Put builds depends on the key
\* and on the Trie, never on the value or its type
WriterTypes == {"uint64_t"}

WriterValues == {2}

WriterMayCall == ~fault.faulted /\ writer.pc = "idle" /\ steps < ConcOps

Front(path) == SubSeq(path, 1, Len(path) - 1)

\* the node argument and the depth of the innermost active dfs call
WNode == writer.path[Len(writer.path)]

WDepth == Len(writer.path) - 1

\* the innermost dfs call returns ret: to the dfs call above it, or out of
\* Put/Remove as the root_ of the returned Trie
WReturn(ret) ==
  IF Len(writer.path) = 1
  THEN /\ versions' = Append(versions, Version(ret, writer.op, writer.key,
                                                 writer.type, writer.value))
       /\ steps' = steps + 1
       /\ writer' = Idle
  ELSE /\ writer' = [writer EXCEPT !.pc = "up", !.path = Front(writer.path),
                                   !.ret = ret, !.clone = Null]
       /\ UNCHANGED <<versions, steps>>

\* a Clone() that hands back the node itself
WCloneAlias(h, node) == Same(h, node)

\* auto clone_node = node->Clone(): the clone is a new object
WClone(h, node) == Alloc(h, Clone(h[node]))

\* lines 52-55 and the call of dfs on root
WPutBegin(key, T, value) ==
  /\ WriterMayCall
  /\ LET root == PutRoot(heap, Latest(versions))
     IN /\ heap' = root.heap
        /\ writer' = [Idle EXCEPT !.op = "Put", !.pc = "down", !.key = key,
                                  !.type = T, !.value = value,
                                  !.path = <<root.node>>]
  /\ UNCHANGED <<versions, fault, steps, reader>>

\* lines 58-72: the terminal node, or next_node and the recursive call
WPutDown ==
  /\ writer.op = "Put" /\ writer.pc = "down"
  /\ IF WDepth = Len(writer.key)
     THEN LET res == PutTerminal(heap, WNode, writer.type, writer.value)
          IN heap' = res.heap /\ WReturn(res.node)
     ELSE LET next_node == PutNextNode(heap, WNode, writer.key[WDepth + 1])
          IN /\ heap' = next_node.heap
             /\ writer' = [writer EXCEPT !.path = Append(@, next_node.node)]
             /\ UNCHANGED <<versions, steps>>
  /\ UNCHANGED <<fault, reader>>

\* the children map of lines 62-72 at the current level
WPutChildrenNow ==
  [PutChildren(heap, WNode) EXCEPT ![writer.key[WDepth + 1]] = writer.ret]

\* lines 73-80 after the recursive call returned: Clone() of a value node,
\* or a plain node with the new children
WPutUp ==
  /\ writer.op = "Put" /\ writer.pc = "up"
  /\ IF WNode # Null /\ heap[WNode].is_value_node_
     THEN LET cloned == WClone(heap, WNode)
          IN /\ heap' = cloned.heap
             /\ writer' = [writer EXCEPT !.pc = "edit", !.clone = cloned.node]
             /\ UNCHANGED <<versions, steps>>
     ELSE LET res == Alloc(heap, TrieNode(WPutChildrenNow))
          IN heap' = res.heap /\ WReturn(res.node)
  /\ UNCHANGED <<fault, reader>>

\* line 76: clone_node->children_ = std::move(children); line 77
WPutEdit ==
  /\ writer.op = "Put" /\ writer.pc = "edit"
  /\ heap' = [heap EXCEPT ![writer.clone].children_ = WPutChildrenNow]
  /\ WReturn(writer.clone)
  /\ UNCHANGED <<fault, reader>>

\* line 114 on a Trie with a root
WRemoveBegin(key) ==
  /\ WriterMayCall
  /\ Latest(versions) # Null
  /\ writer' = [Idle EXCEPT !.op = "Remove", !.pc = "down", !.key = key,
                            !.path = <<Latest(versions)>>]
  /\ UNCHANGED <<heap, versions, fault, steps, reader>>

\* line 114 on a Trie without root: the invalid read of lines 90/99
WRemoveNullRoot(key, outcome) ==
  /\ WriterMayCall
  /\ Latest(versions) = Null
  /\ IF outcome = "fault"
     THEN /\ fault' = [faulted |-> TRUE, key |-> key]
          /\ UNCHANGED versions
     ELSE /\ versions' = Append(versions, Version(Null, "Remove", key, PlainNode, 0))
          /\ UNCHANGED fault
  /\ steps' = steps + 1
  /\ UNCHANGED <<heap, writer, reader>>

\* lines 89-102: the terminal case, the missing child, or the recursive call
WRemoveDown ==
  /\ writer.op = "Remove" /\ writer.pc = "down"
  /\ IF WDepth = Len(writer.key)
     THEN LET res == RemoveTerminal(heap, WNode)
          IN heap' = res.heap /\ WReturn(res.node)
     ELSE IF ~Contains(heap[WNode], writer.key[WDepth + 1])
          THEN heap' = heap /\ WReturn(WNode)
          ELSE /\ writer' = [writer EXCEPT
                               !.path = Append(@, heap[WNode].children_[writer.key[WDepth + 1]])]
               /\ UNCHANGED <<heap, versions, steps>>
  /\ UNCHANGED <<fault, reader>>

\* line 103
WRemoveUp ==
  /\ writer.op = "Remove" /\ writer.pc = "up"
  /\ LET cloned == WClone(heap, WNode)
     IN /\ heap' = cloned.heap
        /\ writer' = [writer EXCEPT !.pc = "edit", !.clone = cloned.node]
  /\ UNCHANGED <<versions, fault, steps, reader>>

\* lines 104-112: erase or replace the entry in the clone, and return
WRemoveEdit ==
  /\ writer.op = "Remove" /\ writer.pc = "edit"
  /\ LET ch == writer.key[WDepth + 1]
         children == [heap[writer.clone].children_ EXCEPT ![ch] = writer.ret]
     IN /\ heap' = [heap EXCEPT ![writer.clone].children_ = children]
        /\ IF Empty(children) /\ ~heap[WNode].is_value_node_
           THEN WReturn(Null)
           ELSE WReturn(writer.clone)
  /\ UNCHANGED <<fault, reader>>

(***************************************************************************)
(* The reader thread: it obtains one of the Tries produced so far, and     *)
(* later runs Get<T>(key) on it, one node per step.  Readers only read, so *)
(* one reader stands for each of any number of them.                       *)
(***************************************************************************)
\* the nodes of the Trie with root root_, each with its content
Snapshot(h, root_) ==
  LET nodes == IF root_ = Null THEN {}
               ELSE {GetWalk(h, root_, k) : k \in Keys} \ {Null}
  IN [n \in nodes |-> h[n]]

RObtain(i, key, T) ==
  /\ ~fault.faulted
  /\ reader.pc = "idle"
  /\ reader' = [NoRead EXCEPT !.pc = "start", !.root_ = versions[i].root_,
                              !.key = key, !.rest = key, !.type = T,
                              !.expect = Get(heap, versions[i].root_, key, T),
                              !.seen = Snapshot(heap, versions[i].root_)]
  /\ UNCHANGED <<heap, versions, fault, steps, writer>>

\* lines 15-28
RStart ==
  /\ ~fault.faulted
  /\ reader.pc = "start"
  /\ reader' =
       IF reader.root_ = Null
       THEN [reader EXCEPT !.pc = "done", !.result = Absent]
       ELSE IF reader.key = <<>>
            THEN [reader EXCEPT !.pc = "done",
                                !.result = GetEmptyKey(heap[reader.root_], reader.type)]
            ELSE [reader EXCEPT !.pc = "walk", !.p = reader.root_]
  /\ UNCHANGED <<heap, versions, fault, steps, writer>>

\* one turn of the loop of lines 29-34, or lines 35-43 after it
RStep ==
  /\ ~fault.faulted
  /\ reader.pc = "walk"
  /\ reader' =
       IF reader.rest = <<>>
       THEN [reader EXCEPT !.pc = "done",
                           !.result = GetValue(heap[reader.p], reader.type)]
       ELSE IF ~Contains(heap[reader.p], Head(reader.rest))
            THEN [reader EXCEPT !.pc = "done", !.result = Absent]
            ELSE [reader EXCEPT !.p = heap[reader.p].children_[Head(reader.rest)],
                                !.rest = Tail(reader.rest)]
  /\ UNCHANGED <<heap, versions, fault, steps, writer>>

ConcNext ==
  \/ \E key \in Keys, T \in WriterTypes, value \in WriterValues : WPutBegin(key, T, value)
  \/ WPutDown
  \/ WPutUp
  \/ WPutEdit
  \/ \E key \in Keys : WRemoveBegin(key)
  \/ \E key \in Keys, outcome \in NullDerefOutcomes : WRemoveNullRoot(key, outcome)
  \/ WRemoveDown
  \/ WRemoveUp
  \/ WRemoveEdit
  \/ \E i \in 1..Len(versions), key \in Keys, T \in Types : RObtain(i, key, T)
  \/ RStart
  \/ RStep

ConcSpec == Init /\ [][ConcNext]_vars

(***************************************************************************)
(* Vocabulary of the properties.                                           *)
(***************************************************************************)
N == Len(versions)

Root(i) == versions[i].root_

\* the node at position k below root_, Null when there is none
NodeAt(h, root_, k) == IF root_ = Null THEN Null ELSE GetWalk(h, root_, k)

\* the nodes reachable from root_
Reach(h, root_) == {NodeAt(h, root_, k) : k \in Keys} \ {Null}

\* what the calls made so far say versions[i] maps k to: the latest call on k
RECURSIVE RefAt(_, _)
RefAt(i, k) ==
  IF i = 1 THEN [found |-> FALSE, type |-> PlainNode, value |-> 0]
  ELSE IF versions[i].key = k
       THEN [found |-> versions[i].op = "Put",
             type |-> versions[i].type, value |-> versions[i].value]
       ELSE RefAt(i - 1, k)

\* tree shape with the values: position -> payload of the node there
Shape(h, root_) ==
  [k \in {q \in Keys : NodeAt(h, root_, q) # Null} |->
     LET n == h[NodeAt(h, root_, k)]
     IN <<n.is_value_node_, n.type_, n.value_>>]

\* both tries answer every Get alike
SameMapping(h, r1, r2) ==
  \A k \in Keys, T \in Types : Get(h, r1, k, T) = Get(h, r2, k, T)

\* versions[i] maps k at some type
Mapped(i, k) == \E T \in Types : Get(heap, Root(i), k, T).found

\* versions[i] was produced by a call of op on versions[i - 1]
Did(i, op) == i \in 2..N /\ versions[i].op = op

(***************************************************************************)
(* C1: Put and Remove never change the trie they are called on: every      *)
(* step leaves every existing Trie, every node reachable from its root     *)
(* (children, holds-value flag, payload) and every Get result on it as     *)
(* they were.                                                              *)
(***************************************************************************)
C1_PutRemoveNeverChangeTheTrie ==
  [][\A i \in 1..N :
       /\ Len(versions') >= i
       /\ versions'[i] = versions[i]
       /\ \A n \in Reach(heap, Root(i)) : Len(heap') >= n /\ heap'[n] = heap[n]
       /\ \A k \in Keys, T \in Types :
            Get(heap', Root(i), k, T) = Get(heap, Root(i), k, T)]_vars

\* a trie t that maps "a" and "ab", on which Put("a") was called and then
\* Remove("ab") on the result
C1_Witness ==
  \E i \in 2..N :
    /\ i + 2 = N /\ steps = 2
    /\ Get(heap, Root(i), <<"a">>, "uint64_t").found
    /\ Get(heap, Root(i), <<"a", "b">>, "uint32_t").found
    /\ versions[i + 1].op = "Put" /\ versions[i + 1].key = <<"a">>
    /\ versions[i + 2].op = "Remove" /\ versions[i + 2].key = <<"a", "b">>

(***************************************************************************)
(* C2: round trip: Get<T> of the key just Put<T> returns the value put,    *)
(* for every prior trie (also the one with no root) and every key (also    *)
(* the empty one).                                                         *)
(***************************************************************************)
C2_GetAfterPut ==
  \A i \in 2..N :
    Did(i, "Put") =>
      Get(heap, Root(i), versions[i].key, versions[i].type) = Found(versions[i].value)

\* Put of the empty key on the trie with no root, made as a step
C2_Witness ==
  /\ steps > 0
  /\ Did(N, "Put") /\ Root(N - 1) = Null /\ versions[N].key = <<>>

(***************************************************************************)
(* C4: non-interference of Put: after Put(k1, v) every other key k2,       *)
(* prefixes and extensions of k1 included, gets what it got before, at     *)
(* every type.                                                             *)
(***************************************************************************)
C4_PutLeavesOtherKeys ==
  \A i \in 2..N :
    Did(i, "Put") =>
      \A k2 \in Keys \ {versions[i].key}, T \in Types :
        Get(heap, Root(i), k2, T) = Get(heap, Root(i - 1), k2, T)

\* Put("a") on a trie that maps its prefix "" and its extension "ab"
C4_Witness ==
  /\ steps > 0
  /\ Did(N, "Put") /\ versions[N].key = <<"a">>
  /\ Get(heap, Root(N - 1), <<>>, "uint32_t").found
  /\ Get(heap, Root(N - 1), <<"a", "b">>, "uint32_t").found

(***************************************************************************)
(* C5: Put then Remove: Get of k on Remove(Put(t, k, v), k) is absence     *)
(* at every type.                                                          *)
(***************************************************************************)
C5_PutThenRemove ==
  \A i \in 3..N :
    (Did(i, "Remove") /\ Did(i - 1, "Put") /\ versions[i].key = versions[i - 1].key) =>
      \A T \in Types : Get(heap, Root(i), versions[i].key, T) = Absent

\* Put("a") then Remove("a") as steps, on a trie where "a" has the extension "ab"
C5_Witness ==
  /\ steps = 2 /\ N >= 3
  /\ Did(N, "Remove") /\ Did(N - 1, "Put")
  /\ versions[N].key = <<"a">> /\ versions[N - 1].key = <<"a">>
  /\ Get(heap, Root(N - 2), <<"a", "b">>, "uint32_t").found

(***************************************************************************)
(* C7: overwrite: after Put(k, v1) and then Put(k, v2), Get of k at the    *)
(* type of v2 returns v2, and Get of k at any other type returns absence.  *)
(***************************************************************************)
C7_Overwrite ==
  \A i \in 3..N :
    (Did(i, "Put") /\ Did(i - 1, "Put") /\ versions[i].key = versions[i - 1].key) =>
      \A T \in Types :
        Get(heap, Root(i), versions[i].key, T) =
          IF T = versions[i].type THEN Found(versions[i].value) ELSE Absent

\* two Puts of the same key as steps, the second with another type
C7_Witness ==
  /\ steps = 2 /\ N >= 3
  /\ Did(N, "Put") /\ Did(N - 1, "Put")
  /\ versions[N].key = versions[N - 1].key
  /\ versions[N].type # versions[N - 1].type
  /\ versions[N].value = versions[N - 1].value

(***************************************************************************)
(* C8: type-mismatch safety: when the calls made so far left key k         *)
(* holding a value stored with type A, Get<B> of k with B # A returns      *)
(* absence, for the empty key and for non-empty keys.                      *)
(***************************************************************************)
C8_TypeMismatchIsAbsence ==
  \A i \in 1..N, k \in Keys :
    RefAt(i, k).found =>
      \A B \in Types \ {RefAt(i, k).type} : Get(heap, Root(i), k, B) = Absent

\* a trie holding the empty key with one type and "a" with the other
C8_Witness ==
  /\ steps > 0
  /\ RefAt(N, <<>>).found /\ RefAt(N, <<"a">>).found
  /\ RefAt(N, <<>>).type # RefAt(N, <<"a">>).type

(***************************************************************************)
(* C10: pruning invariant: in every Trie produced from the empty trie no   *)
(* node other than the root has both no children and no value.             *)
(***************************************************************************)
C10_NoEmptyNode ==
  \A i \in 1..N :
    \A n \in Reach(heap, Root(i)) \ {Root(i)} :
      ~(Empty(heap[n].children_) /\ ~heap[n].is_value_node_)

\* a Remove that took "ab" and its valueless parent "a" out of a trie that
\* keeps other keys
C10_Witness ==
  /\ steps > 0
  /\ Did(N, "Remove") /\ versions[N].key = <<"a", "b">>
  /\ NodeAt(heap, Root(N - 1), <<"a", "b">>) # Null
  /\ NodeAt(heap, Root(N), <<"a">>) = Null
  /\ Root(N) # Null

(***************************************************************************)
(* C3: Remove of a key that is not mapped is a no-op and never a failure:  *)
(* for every trie, the one with no root included, the call completes and   *)
(* the returned trie answers every Get as the trie it was called on.       *)
(***************************************************************************)
C3_RemoveUnmappedIsNoOp ==
  /\ ~fault.faulted
  /\ \A i \in 2..N :
       (Did(i, "Remove") /\ ~Mapped(i - 1, versions[i].key)) =>
         SameMapping(heap, Root(i - 1), Root(i))

(***************************************************************************)
(* C6: non-interference of Remove: for every trie t and keys k1 # k2,      *)
(* Remove(t, k1) yields a trie on which Get of k2 returns what it          *)
(* returned on t, at every type.                                           *)
(***************************************************************************)
C6_RemoveLeavesOtherKeys ==
  /\ ~fault.faulted
  /\ \A i \in 2..N :
       Did(i, "Remove") =>
         \A k2 \in Keys \ {versions[i].key}, T \in Types :
           Get(heap, Root(i), k2, T) = Get(heap, Root(i - 1), k2, T)

(***************************************************************************)
(* C9: idempotence of Remove: Remove(Remove(t, k), k) completes and has    *)
(* the shape and the values of Remove(t, k), also when Remove(t, k) took   *)
(* the last mapping out of t.                                              *)
(***************************************************************************)
C9_RemoveIdempotent ==
  /\ ~(fault.faulted /\ Did(N, "Remove") /\ versions[N].key = fault.key)
  /\ \A i \in 3..N :
       (Did(i, "Remove") /\ Did(i - 1, "Remove")
          /\ versions[i].key = versions[i - 1].key) =>
         Shape(heap, Root(i)) = Shape(heap, Root(i - 1))

(***************************************************************************)
(* Vocabulary of the structural properties.                                *)
(***************************************************************************)
\* the versions a state is looked at for: all of the initial program state,
\* afterwards the one the last call produced
Fresh == IF steps = 0 THEN 2..N ELSE {N}

\* the first j key units of k: the position at depth j of k's path
Prefix(k, j) == SubSeq(k, 1, j)

\* ch is not the step k's path takes below depth j
OffPath(k, j, ch) == j = Len(k) \/ ch # k[j + 1]

(***************************************************************************)
(* C11: structural sharing on Put: after t2 = Put(t, k, v), for every      *)
(* node n of t on k's path, every child of n that is not the next step of  *)
(* the path (every child, for k's terminal node) is the very same node     *)
(* object in the corresponding node of t2.                                 *)
(***************************************************************************)
C11_PutSharesSubtrees ==
  \A i \in Fresh :
    Did(i, "Put") =>
      LET k == versions[i].key
      IN \A j \in 0..Len(k) :
           LET n == NodeAt(heap, Root(i - 1), Prefix(k, j))
               m == NodeAt(heap, Root(i), Prefix(k, j))
           IN n # Null =>
                \A ch \in Chars :
                  (OffPath(k, j, ch) /\ heap[n].children_[ch] # Null) =>
                    (m # Null /\ heap[m].children_[ch] = heap[n].children_[ch])

\* Put("a") as a step on a trie where the root has the other child "b" and
\* the old terminal node of "a" has the child "ab"
C11_Witness ==
  /\ steps > 0
  /\ Did(N, "Put") /\ versions[N].key = <<"a">>
  /\ NodeAt(heap, Root(N - 1), <<"b">>) # Null
  /\ NodeAt(heap, Root(N - 1), <<"a", "b">>) # Null

(***************************************************************************)
(* C13: absence is a result: Get<T>(t, k) is absence whenever t has no     *)
(* root, or a key unit of k has no child on the path, or the node reached  *)
(* after all of k holds no value; Get on the empty trie is absence for     *)
(* every key.                                                              *)
(***************************************************************************)
C13_AbsenceIsAResult ==
  \A i \in {1} \cup Fresh, k \in Keys, T \in Types :
    LET n == NodeAt(heap, Root(i), k)
    IN (Root(i) = Null \/ n = Null \/ ~heap[n].is_value_node_) =>
         Get(heap, Root(i), k, T) = Absent

\* after a call: a trie with a root in which position "a" exists without a
\* value (it carries "ab") and position "b" does not exist
C13_Witness ==
  /\ steps > 0 /\ Root(N) # Null
  /\ NodeAt(heap, Root(N), <<"a">>) # Null
  /\ ~heap[NodeAt(heap, Root(N), <<"a">>)].is_value_node_
  /\ NodeAt(heap, Root(N), <<"b">>) = Null
  /\ NodeAt(heap, Root(N), <<"a", "a">>) = Null

(***************************************************************************)
(* C14: structural sharing on Remove: after t2 = Remove(t, k), every       *)
(* subtree of t hanging off k's path (a child of a path node that is not   *)
(* the next step, every child of k's terminal node) whose position still   *)
(* exists in t2 is the very same node object there.                        *)
(***************************************************************************)
C14_RemoveSharesSubtrees ==
  \A i \in Fresh :
    (Did(i, "Remove") /\ Root(i - 1) # Null) =>
      LET k == versions[i].key
      IN \A j \in 0..Len(k) :
           LET n == NodeAt(heap, Root(i - 1), Prefix(k, j))
           IN n # Null =>
                \A ch \in Chars :
                  LET c == heap[n].children_[ch]
                      c2 == NodeAt(heap, Root(i), Append(Prefix(k, j), ch))
                  IN (OffPath(k, j, ch) /\ c # Null /\ c2 # Null) => c2 = c

\* Remove("a") as a step where "a" is mapped, its node has the child "ab"
\* and the root has the other child "b"
C14_Witness ==
  /\ steps > 0
  /\ Did(N, "Remove") /\ versions[N].key = <<"a">>
  /\ Mapped(N - 1, <<"a">>)
  /\ NodeAt(heap, Root(N - 1), <<"a", "b">>) # Null
  /\ NodeAt(heap, Root(N - 1), <<"b">>) # Null
  /\ NodeAt(heap, Root(N), <<"a", "b">>) = NodeAt(heap, Root(N - 1), <<"a", "b">>)

\* the position at depth j of k's path in trie root_ is to go
RECURSIVE Pruned(_, _, _, _)
Pruned(h, root_, k, j) ==
  LET n == h[NodeAt(h, root_, Prefix(k, j))]
  IN IF j = Len(k) THEN Empty(n.children_)
     ELSE /\ Pruned(h, root_, k, j + 1)
          /\ ~n.is_value_node_
          /\ \A ch \in Chars : ch # k[j + 1] => n.children_[ch] = Null

(***************************************************************************)
(* C15: extent of pruning: when Remove(t, k) removes a mapped key k, the   *)
(* positions of k's path that are gone from the result are exactly the     *)
(* terminal node, if it has no children, and the unbroken run of ancestors *)
(* right above it that hold no value and have no child off the path; the   *)
(* first ancestor with another child or a value, and all above it, stay.   *)
(***************************************************************************)
C15_PruningExtent ==
  \A i \in Fresh :
    (Did(i, "Remove") /\ Mapped(i - 1, versions[i].key)) =>
      LET k == versions[i].key
      IN \A j \in 0..Len(k) :
           (NodeAt(heap, Root(i), Prefix(k, j)) = Null)
             <=> Pruned(heap, Root(i - 1), k, j)

\* Remove("ab") as a step that takes out "ab" and its valueless parent "a"
\* and stops at the root, which has the other child "b"
C15_Witness ==
  /\ steps > 0
  /\ Did(N, "Remove") /\ versions[N].key = <<"a", "b">>
  /\ Mapped(N - 1, <<"a", "b">>)
  /\ NodeAt(heap, Root(N), <<"a">>) = Null
  /\ NodeAt(heap, Root(N), <<"b">>) # Null

(***************************************************************************)
(* Vocabulary of the allocation properties.                                *)
(***************************************************************************)
\* the step is a Put call that returned
PutStep == Len(versions') = N + 1 /\ versions'[N + 1].op = "Put"

\* the positions of k's path, root included, that do not exist in trie root_
Missing(h, root_, k) ==
  Cardinality({j \in 0..Len(k) : NodeAt(h, root_, Prefix(k, j)) = Null})

\* the nodes of the trie the step returned that are not nodes of the trie
\* it was called on
NewNodes == Reach(heap', versions'[N + 1].root_) \ Reach(heap, Root(N))

RootChildren(i) == IF Root(i) = Null THEN NoChildren ELSE heap[Root(i)].children_

(***************************************************************************)
(* C17: the empty key addresses the root node.  Put(t, "", v) returns a    *)
(* trie whose root holds v and has exactly the children of t's root (none  *)
(* if t had no root); Get<T>(t, "") is the root's value if the root holds  *)
(* one of type T and absence otherwise; Remove(t, "") on a trie whose root *)
(* holds a value yields a valueless root with the same children, or the    *)
(* trie with no root if the root had no children.                          *)
(***************************************************************************)
C17_EmptyKeyIsRoot ==
  /\ \A i \in {1} \cup Fresh, T \in Types :
       Get(heap, Root(i), <<>>, T) =
         IF Root(i) # Null /\ heap[Root(i)].is_value_node_ /\ heap[Root(i)].type_ = T
         THEN Found(heap[Root(i)].value_)
         ELSE Absent
  /\ \A i \in Fresh :
       /\ (Did(i, "Put") /\ versions[i].key = <<>>) =>
            /\ Root(i) # Null
            /\ heap[Root(i)] =
                 TrieNodeWithValue(RootChildren(i - 1), versions[i].type, versions[i].value)
       /\ (Did(i, "Remove") /\ versions[i].key = <<>>
             /\ Root(i - 1) # Null /\ heap[Root(i - 1)].is_value_node_) =>
            IF Empty(RootChildren(i - 1))
            THEN Root(i) = Null
            ELSE Root(i) # Null /\ heap[Root(i)] = TrieNode(RootChildren(i - 1))

\* as steps: Put of the empty key on a trie whose root has children but no
\* value, then Remove of the empty key
C17_Witness ==
  /\ steps = 2 /\ N >= 3
  /\ Did(N - 1, "Put") /\ versions[N - 1].key = <<>>
  /\ Root(N - 2) # Null /\ ~heap[Root(N - 2)].is_value_node_
  /\ Did(N, "Remove") /\ versions[N].key = <<>>
  /\ Root(N) # Null /\ Get(heap, Root(N - 1), <<>>, versions[N - 1].type).found

\* the calls that produced versions[i] were Puts from the empty trie and
\* then Removes of keys mapped at the time, and left no key mapped
AllRemoved(i) ==
  /\ \A k \in Keys : ~RefAt(i, k).found
  /\ \E m \in 2..(i - 1) :
       /\ \A j \in 2..m : versions[j].op = "Put"
       /\ \A j \in (m + 1)..i :
            versions[j].op = "Remove" /\ RefAt(j - 1, versions[j].key).found

\* the trie maps k to the value v of type T and nothing else
MapsExactly(h, root_, k, T, v) ==
  \A k2 \in Keys, T2 \in Types :
    Get(h, root_, k2, T2) = IF k2 = k /\ T2 = T THEN Found(v) ELSE Absent

(***************************************************************************)
(* C18: all keys removed: after Puts from the empty trie and Removes of    *)
(* every mapped key, Get on the resulting trie is absence for every key    *)
(* and type, and a Put(k, v) on it yields a trie that maps exactly k to v. *)
(***************************************************************************)
C18_AllKeysRemoved ==
  \A i \in 3..N :
    AllRemoved(i) =>
      /\ \A k \in Keys, T \in Types : Get(heap, Root(i), k, T) = Absent
      /\ \A k \in Keys, T \in Types, v \in Values :
           LET res == Put(heap, Root(i), k, T, v)
           IN MapsExactly(res.heap, res.root_, k, T, v)
      /\ (i < N /\ Did(i + 1, "Put")) =>
           MapsExactly(heap, Root(i + 1), versions[i + 1].key,
                       versions[i + 1].type, versions[i + 1].value)

\* as steps: the Remove of the last mapped key and then a Put
C18_Witness ==
  /\ steps = 2 /\ N >= 4
  /\ AllRemoved(N - 1)
  /\ Did(N, "Put") /\ Len(versions[N].key) = 2

(***************************************************************************)
(* C19: Remove undoes a Put of a fresh key: for a key k not mapped in t,   *)
(* Remove(Put(t, k, v), k) has the node positions of t, the same           *)
(* value-holding positions with the same values and types, and no root     *)
(* exactly when t has no root.                                             *)
(***************************************************************************)
C19_RemoveUndoesPut ==
  \A i \in Fresh :
    (i >= 3 /\ Did(i, "Remove") /\ Did(i - 1, "Put")
       /\ versions[i].key = versions[i - 1].key
       /\ ~Mapped(i - 2, versions[i].key)) =>
      /\ Shape(heap, Root(i)) = Shape(heap, Root(i - 2))
      /\ (Root(i) = Null) <=> (Root(i - 2) = Null)

\* as steps: Put("ab") and Remove("ab") on a trie with a root that has no
\* position "a"
C19_Witness ==
  /\ steps = 2 /\ N >= 3
  /\ Did(N - 1, "Put") /\ Did(N, "Remove")
  /\ versions[N].key = <<"a", "b">> /\ versions[N - 1].key = <<"a", "b">>
  /\ Root(N - 2) # Null
  /\ NodeAt(heap, Root(N - 2), <<"a">>) = Null

\* no Remove among the calls up to versions[i] was made on a trie without root
RemoveHadRoot(i) ==
  \A j \in 2..i : versions[j].op = "Remove" => Root(j - 1) # Null

(***************************************************************************)
(* C20: the trie refines a plain map: with a reference map from keys to    *)
(* (type, value) run through the same Put and Remove calls from the empty  *)
(* trie, Remove being called only on tries with a root, Get<T> of k        *)
(* returns v when the map holds (T, v) at k and absence otherwise, after   *)
(* every call.                                                             *)
(***************************************************************************)
C20_RefinesMap ==
  \A i \in {1} \cup Fresh :
    RemoveHadRoot(i) =>
      \A k \in Keys, T \in Types :
        Get(heap, Root(i), k, T) =
          IF RefAt(i, k).found /\ RefAt(i, k).type = T
          THEN Found(RefAt(i, k).value)
          ELSE Absent

\* as steps: a Put over a key mapped with the other type, then the Remove
\* of another mapped key
C20_Witness ==
  /\ steps = 2 /\ N >= 4
  /\ Did(N - 1, "Put") /\ RefAt(N - 2, versions[N - 1].key).found
  /\ RefAt(N - 2, versions[N - 1].key).type # versions[N - 1].type
  /\ Did(N, "Remove") /\ versions[N].key # versions[N - 1].key
  /\ RefAt(N - 1, versions[N].key).found
  /\ RemoveHadRoot(N)

(***************************************************************************)
(* C12: frozen snapshots under interleaving: while the writer runs Put and *)
(* Remove calls node construction by node construction, a reader's Get on  *)
(* a Trie it obtained earlier returns exactly what it would return run     *)
(* alone on that Trie, and at every moment from obtaining the Trie on, the *)
(* nodes of that Trie, the one the reader stands on included, have the     *)
(* children and the value they had when the reader obtained it.            *)
(***************************************************************************)
C12_FrozenSnapshot ==
  reader.pc # "idle" =>
    /\ Get(heap, reader.root_, reader.key, reader.type) = reader.expect
    /\ \A n \in DOMAIN reader.seen : heap[n] = reader.seen[n]
    /\ reader.pc = "walk" => reader.p \in DOMAIN reader.seen
    /\ reader.pc = "done" => reader.result = reader.expect
    /\ reader.pc = "walk" =>
         reader.p = NodeAt(heap, reader.root_,
                           Prefix(reader.key, Len(reader.key) - Len(reader.rest)))

\* the reader, walking a Trie it obtained before the call, stands on the very
\* node the writer has just cloned and whose clone it is about to edit
C12_Witness ==
  /\ reader.pc = "walk" /\ reader.rest # <<>>
  /\ writer.pc = "edit" /\ reader.p = WNode
  /\ Head(reader.rest) = writer.key[WDepth + 1]

====
